---- MODULE Spec2Model ----
(***************************************************************************)
(* Model of the bittensor-subnet-updater scripts.  The scripts share state *)
(* only through the file system (data/subnets.json, data/descriptions,     *)
(* data/profiles) and the process environment (OPENAI_API_KEY).            *)
(*                                                                         *)
(* Spec       : the scrape / describe / build-profiles pipeline, one       *)
(*              action per script run.                                     *)
(* SpecUpload : the upload scripts, one action per script run, the         *)
(*              outcome of every external call chosen freely; the files    *)
(*              they read are in a state the pipeline can leave them in.   *)
(* SpecConc   : a scrape run taken one file operation at a time, with      *)
(*              runs of the scripts that read data/subnets.json in between.*)
(***************************************************************************)
EXTENDS Integers, Sequences, FiniteSets, TLC

VARIABLES
    subnetsJson,    \* data/subnets.json
    descriptions,   \* data/descriptions/<id>.md, per id
    profiles,       \* data/profiles/<id>_<slug>.md, file name -> content
    lastDiff,       \* data/last_diff.json
    profilesDir,    \* whether the directory data/profiles exists
    runs,           \* number of script runs so far
    apiKey,         \* the environment variable OPENAI_API_KEY
    allProfilesTxt, \* whether data/all_subnet_profiles.txt exists
    snapshots,      \* data/snapshots/snapshot_<timestamp>.txt, stamp -> content
    clock,          \* the UTC hour
    vector,         \* vector/index.faiss and vector/meta.json
    writer,         \* the scrape runs in progress: their positions and locals
    last            \* what the most recent script run did (its trace)

vars == <<subnetsJson, descriptions, profiles, profilesDir, lastDiff, runs,
          apiKey, allProfilesTxt, snapshots, clock, vector, writer, last>>

(* what the scrape / describe / build scripts never touch *)
uploadVars == <<apiKey, allProfilesTxt, snapshots, clock, vector>>

(* what the upload scripts never touch *)
pipelineVars ==
    <<subnetsJson, descriptions, profiles, profilesDir, lastDiff, writer>>

----------------------------------------------------------------------------
(* Bounds *)
MaxId == 2          \* subnet ids are 1..MaxId
MaxRows == 2        \* rows of the scraped TaoMarketCap table
MaxRuns == 4        \* script runs in one behaviour of the pipeline
MaxHour == 1        \* the UTC hour runs over 0..MaxHour
MaxConcRuns == 3    \* script runs in one behaviour with a step-wise scrape

Ids == 1..MaxId

----------------------------------------------------------------------------
(* Strings are sequences of one-character strings. *)

Digits == <<"0", "1", "2", "3", "4", "5", "6", "7", "8", "9">>

RECURSIVE IdStr(_)
IdStr(i) ==
    IF i < 10 THEN <<Digits[i + 1]>>
    ELSE IdStr(i \div 10) \o <<Digits[(i % 10) + 1]>>

(* str.lower() on the letters that occur in the model's names *)
LowerChar(c) ==
    CASE c = "A" -> "a"
      [] c = "B" -> "b"
      [] c = "C" -> "c"
      [] c = "S" -> "s"
      [] OTHER -> c

Lower(s) == [i \in 1..Len(s) |-> LowerChar(s[i])]

(* the character class [a-z0-9] *)
LowerAlnum ==
    {"a", "b", "c", "e", "n", "s", "t", "u"} \cup {Digits[i] : i \in 1..10}

(* re.sub(r'[^a-z0-9]+', '-', s): every maximal run of characters outside *)
(* [a-z0-9] becomes one '-'                                               *)
RECURSIVE SubNonAlnumRuns(_)
SubNonAlnumRuns(s) ==
    IF s = <<>> THEN <<>>
    ELSE IF Head(s) \in LowerAlnum THEN <<Head(s)>> \o SubNonAlnumRuns(Tail(s))
    ELSE IF Tail(s) # <<>> /\ Head(Tail(s)) \notin LowerAlnum
         THEN SubNonAlnumRuns(Tail(s))
         ELSE <<"-">> \o SubNonAlnumRuns(Tail(s))

(* str.strip('-') *)
RECURSIVE LStripDash(_)
LStripDash(s) ==
    IF s # <<>> /\ Head(s) = "-" THEN LStripDash(Tail(s)) ELSE s

RECURSIVE RStripDash(_)
RStripDash(s) ==
    IF s # <<>> /\ s[Len(s)] = "-" THEN RStripDash(SubSeq(s, 1, Len(s) - 1)) ELSE s

StripDash(s) == RStripDash(LStripDash(s))

(* slug without the final strip('-') *)
slugNoStrip(s) == SubNonAlnumRuns(Lower(s))

(* build_profiles.slug *)
slug(s) == StripDash(SubNonAlnumRuns(Lower(s)))

----------------------------------------------------------------------------
(* Data *)

(* a subnet record; only the keys every script reads *)
Rec(i, n) == [id |-> i, name |-> n]

(* names the TaoMarketCap table can show: cell text "<id> <name>", stripped *)
TmcNames == { <<"A", " ", "-", "b", "!">>, <<"a", "-", "b">>, <<"C">> }

(* f"Subnet {subnet_id}" *)
BtName(i) == <<"S", "u", "b", "n", "e", "t", " ">> \o IdStr(i)

(* paragraphs extract_function_text can return (already stripped) *)
DescTexts == { <<"t">>, <<"u", " ", "t">> }

SeqsUpTo(S, n) == UNION { [1..k -> S] : k \in 0..n }

(* tables fetch_table can return: any rows, ids may repeat *)
TmcTables == SeqsUpTo({Rec(i, n) : i \in Ids, n \in TmcNames}, MaxRows)

(* lists subtensor.get_subnets() can return: distinct netuids, ascending *)
BtIdLists ==
    { s \in SeqsUpTo(Ids, MaxId) : \A i, j \in 1..Len(s) : i < j => s[i] < s[j] }

(* OPENAI_API_KEY: unset, or set to a string *)
KeyUnset == [set |-> FALSE, value |-> <<>>]
KeySet(v) == [set |-> TRUE, value |-> v]

(* the states of a file holding JSON *)
Absent == [kind |-> "absent", subnets |-> <<>>, error |-> FALSE]
Json(list, err) == [kind |-> "json", subnets |-> list, error |-> err]

(* open(path, "w") leaves a zero-length file; a flush before the end of   *)
(* the text leaves a prefix of it, which is not JSON                      *)
Empty == [kind |-> "empty", subnets |-> <<>>, error |-> FALSE]
Partial == [kind |-> "partial", subnets |-> <<>>, error |-> FALSE]

(* no scrape run in progress *)
Idle == [pc |-> "idle"]

(* a file of data/descriptions: missing, or present with its text *)
NoFile == [exists |-> FALSE, text |-> <<>>]
File(t) == [exists |-> TRUE, text |-> t]

(* the text build_profiles uses when there is no description file *)
DefaultFunction == <<"D", "e", "f", "a", "u", "l", "t">>

(* str.strip() *)
Whitespace == {" ", "\n", "\t"}

RECURSIVE LStripWs(_)
LStripWs(s) ==
    IF s # <<>> /\ Head(s) \in Whitespace THEN LStripWs(Tail(s)) ELSE s

RECURSIVE RStripWs(_)
RStripWs(s) ==
    IF s # <<>> /\ s[Len(s)] \in Whitespace
    THEN RStripWs(SubSeq(s, 1, Len(s) - 1)) ELSE s

StripWs(s) == RStripWs(LStripWs(s))

(* a write that leaves its file alone in the directory *)
WriteFileAlone(dir, fname, content) == [f \in {fname} |-> content]

(* Path.write_text on a directory modelled as a function name -> content *)
WriteFile(dir, fname, content) ==
    [f \in DOMAIN dir \cup {fname} |-> IF f = fname THEN content ELSE dir[f]]

----------------------------------------------------------------------------
(* build_profiles.py *)

(* OUT_DIR.joinpath(f"{sid}_{slug(name)}.md") *)
ProfilePath(r) == <<r.id, slug(r.name)>>

(* TEMPLATE.format(...): the parts of the text that vary *)
ProfileContent(r, descs) ==
    [name |-> r.name, sid |-> r.id,
     function |-> IF descs[r.id].exists THEN StripWs(descs[r.id].text)
                  ELSE DefaultFunction]

(* the loop of main over data["subnets"] *)
RECURSIVE WriteProfiles(_, _, _)
WriteProfiles(dir, descs, list) ==
    IF list = <<>> THEN dir
    ELSE WriteProfiles(
            WriteFile(dir, ProfilePath(Head(list)), ProfileContent(Head(list), descs)),
            descs, Tail(list))

(* json.loads(SUBNETS_JSON.read_text() or '{"subnets": []}') *)
BuildProfilesRead(file) ==
    CASE file.kind = "absent"  -> [raised |-> TRUE,  subnets |-> <<>>]
      [] file.kind = "partial" -> [raised |-> TRUE,  subnets |-> <<>>]
      [] file.kind = "empty"   -> [raised |-> FALSE, subnets |-> <<>>]
      [] OTHER                 -> [raised |-> FALSE, subnets |-> file.subnets]

(* a main that creates the description file it does not find *)
DescriptionsAfterBuildTouch(descs, list) ==
    [i \in DOMAIN descs |->
        IF ~descs[i].exists /\ \E k \in 1..Len(list) : list[k].id = i
        THEN File(<<>>) ELSE descs[i]]

(* data/descriptions after main: desc_path is only tested and read *)
DescriptionsAfterBuild(descs, list) == descs

BuildProfiles ==
    LET rd == BuildProfilesRead(subnetsJson) IN
    /\ profiles' = WriteProfiles(profiles, descriptions, rd.subnets)
    /\ descriptions' = DescriptionsAfterBuild(descriptions, rd.subnets)
    /\ profilesDir' = TRUE     \* OUT_DIR.mkdir at import
    /\ last' = [script |-> "build_profiles", raised |-> rd.raised,
                read |-> subnetsJson,
                written |-> [k \in 1..Len(rd.subnets) |-> ProfilePath(rd.subnets[k])]]
    /\ UNCHANGED <<subnetsJson, lastDiff>>

----------------------------------------------------------------------------
(* scrape_taomarketcap.py *)

(* old_map = {s["id"]: s["name"] for s in old.get("subnets", [])}: a later *)
(* record with the same id replaces an earlier one                         *)
RECURSIVE OldMap(_)
OldMap(list) ==
    IF list = <<>> THEN <<>>
    ELSE LET r == list[Len(list)]
             m == OldMap(SubSeq(list, 1, Len(list) - 1))
         IN [i \in DOMAIN m \cup {r.id} |-> IF i = r.id THEN r.name ELSE m[i]]

(* a diff that ignores the old file: every record is new *)
ChangesAllNew(oldMap, new) == [new_ids |-> new, renamed |-> <<>>]

(* the loop that fills changes["new_ids"] and changes["renamed"] *)
RECURSIVE Changes(_, _)
Changes(oldMap, new) ==
    IF new = <<>> THEN [new_ids |-> <<>>, renamed |-> <<>>]
    ELSE LET r  == new[Len(new)]
             ch == Changes(oldMap, SubSeq(new, 1, Len(new) - 1))
         IN IF r.id \notin DOMAIN oldMap
            THEN [ch EXCEPT !.new_ids = Append(@, r)]
            ELSE IF oldMap[r.id] # r.name
            THEN [ch EXCEPT !.renamed =
                     Append(@, [id |-> r.id, old |-> oldMap[r.id], new |-> r.name])]
            ELSE ch

(* old = json.loads(OUT.read_text() or '{"subnets":[]}') if OUT.exists() *)
TmcReadOld(file) ==
    CASE file.kind = "partial" -> [raised |-> TRUE,  subnets |-> <<>>]
      [] file.kind = "json"    -> [raised |-> FALSE, subnets |-> file.subnets]
      [] OTHER                 -> [raised |-> FALSE, subnets |-> <<>>]

(* a main that keeps the old records whose id the new table lacks *)
TmcOutputMerged(old, rows) ==
    Json(rows \o SelectSeq(old, LAMBDA r : \A k \in 1..Len(rows) : rows[k].id # r.id),
         FALSE)

(* what main writes to data/subnets.json: the new table only *)
TmcOutput(old, rows) == Json(rows, FALSE)

(* main; fetchOk = FALSE: requests.get or the parser raised in fetch_table, *)
(* the exception leaves main before anything is read or written            *)
ScrapeTmc(fetchOk, rows) ==
    LET old == TmcReadOld(subnetsJson) IN
    IF ~fetchOk \/ old.raised
    THEN /\ last' = [script |-> "scrape_taomarketcap",
                     upstream |-> IF fetchOk THEN "ok" ELSE "fail",
                     fetched |-> IF fetchOk THEN rows ELSE <<>>,
                     wrote |-> FALSE, raised |-> TRUE]
         /\ UNCHANGED <<subnetsJson, lastDiff, descriptions, profiles, profilesDir>>
    ELSE /\ subnetsJson' = TmcOutput(old.subnets, rows)
         /\ lastDiff' = [kind |-> "json", changes |-> Changes(OldMap(old.subnets), rows)]
         /\ last' = [script |-> "scrape_taomarketcap", upstream |-> "ok",
                     fetched |-> rows,
                     wrote |-> TRUE, raised |-> FALSE]
         /\ UNCHANGED <<descriptions, profiles, profilesDir>>

----------------------------------------------------------------------------
(* fetch_subnets_bt.py *)

(* get_subnet_info: every path returns a record with "id" and "name" *)
(* JSON values of a record: type tag, number, message, text *)
PyNone == [t |-> "None", n |-> 0, s |-> "", q |-> <<>>]
PyInt(n) == [t |-> "int", n |-> n, s |-> "", q |-> <<>>]
PyFloat(n) == [t |-> "float", n |-> n, s |-> "", q |-> <<>>]
PyBool(b) == [t |-> "bool", n |-> IF b THEN 1 ELSE 0, s |-> "", q |-> <<>>]
PyStr(s) == [t |-> "str", n |-> 0, s |-> s, q |-> <<>>]
PyText(q) == [t |-> "str", n |-> 0, s |-> "", q |-> q]
PyDict == [t |-> "dict", n |-> 0, s |-> "", q |-> <<>>]

(* d[k] = v *)
Put(d, k, v) == [x \in DOMAIN d \cup {k} |-> IF x = k THEN v ELSE d[x]]

(* str(e) of the exceptions the SDK raises *)
Msgs == {"timeout", "rpc"}

(* what one subtensor call does: raise, or return a falsy or truthy value *)
Lookups ==
    {[kind |-> "raise", msg |-> m] : m \in Msgs}
    \cup {[kind |-> k, msg |-> ""] : k \in {"falsy", "truthy"}}

InfoOutcomes ==
    [exists : Lookups, is_active : Lookups, owner : Lookups, price : Lookups,
     hyperparameters : Lookups]

(* a lookup whose except clause sets the field to None and nothing else *)
TryLookupSilent(r, field, errKey, call, out, value) ==
    [data |-> Put(r.data, field, IF out.kind = "raise" THEN PyNone ELSE value),
     calls |-> Append(r.calls, call)]

(* one `try: data[field] = <call> except Exception as e:` block *)
TryLookup(r, field, errKey, call, out, value) ==
    [data |-> IF out.kind = "raise"
              THEN Put(Put(r.data, field, PyNone), errKey, PyStr(out.msg))
              ELSE Put(r.data, field, value),
     calls |-> Append(r.calls, call)]

(* an error record without its name *)
InfoErrorNoName(subnet_id, now, msg) ==
    [id |-> PyInt(subnet_id), error |-> PyStr(msg), last_update |-> PyInt(now)]

(* the record of the early return and of the outer except *)
InfoError(subnet_id, now, msg) ==
    [id |-> PyInt(subnet_id), name |-> PyText(BtName(subnet_id)),
     error |-> PyStr(msg), last_update |-> PyInt(now)]

(* get_subnet_info with the outcome of every SDK call: the returned dict  *)
(* and the SDK calls made, in order                                       *)
SubnetInfo(subnet_id, now, o) ==
    LET c0 == <<"subnet_exists">> IN
    IF o.exists.kind = "raise"
    THEN [data |-> InfoError(subnet_id, now, o.exists.msg), calls |-> c0]
    ELSE IF o.exists.kind = "falsy"
    THEN [data |-> InfoError(subnet_id, now, "Subnet does not exist"), calls |-> c0]
    ELSE LET d0 == [id |-> PyInt(subnet_id), name |-> PyText(BtName(subnet_id)),
                    exists |-> PyBool(TRUE), last_update |-> PyInt(now)]
             r1 == TryLookup([data |-> d0, calls |-> c0], "is_active", "is_active_error",
                             "is_subnet_active", o.is_active,
                             PyBool(o.is_active.kind = "truthy"))
             r2 == TryLookup(r1, "owner_hotkey", "owner_error",
                             "get_subnet_owner_hotkey", o.owner,
                             IF o.owner.kind = "truthy" THEN PyStr("hotkey") ELSE PyNone)
             r3 == TryLookup(r2, "price", "price_error", "get_subnet_price", o.price,
                             IF o.price.kind = "truthy" THEN PyFloat(1) ELSE PyInt(0))
         IN TryLookup(r3, "hyperparameters", "hyperparameters_error",
                      "get_subnet_hyperparameters", o.hyperparameters,
                      IF o.hyperparameters.kind = "truthy" THEN PyDict ELSE PyNone)

(* the keys of a record that the later scripts read: the same on every *)
(* path of get_subnet_info                                             *)
get_subnet_info(subnet_id) == Rec(subnet_id, BtName(subnet_id))

(* output_data / error_data of main *)
BtOutput(connOk, ids) ==
    IF connOk THEN Json([k \in 1..Len(ids) |-> get_subnet_info(ids[k])], FALSE)
    ELSE Json(<<>>, TRUE)

(* main; connOk = FALSE: bt.Subtensor(...) or get_subnets() raised *)
FetchSubnetsBt(connOk, ids) ==
    /\ subnetsJson' = BtOutput(connOk, ids)
    /\ last' = [script |-> "fetch_subnets_bt",
                upstream |-> IF connOk THEN "ok" ELSE "fail",
                fetched |-> IF connOk THEN ids ELSE <<>>,
                wrote |-> TRUE, raised |-> FALSE]
    /\ UNCHANGED <<lastDiff, descriptions, profiles, profilesDir>>

----------------------------------------------------------------------------
(* fetch_subnetalpha.py *)

(* what the two requests of one loop iteration can yield *)
(* "text" with an empty text: the page has no paragraph text *)
AlphaOutcomes ==
    {[kind |-> k, text |-> <<>>] : k \in {"raise", "nopage", "text"}}
    \cup {[kind |-> "text", text |-> t] : t \in DescTexts}

(* json.loads(SUBNETS.read_text()): an empty file does not parse *)
AlphaRead(file) ==
    IF file.kind = "json" THEN [raised |-> FALSE, subnets |-> file.subnets]
    ELSE [raised |-> TRUE, subnets |-> <<>>]

(* `if out.exists(): continue` dropped: every listed subnet is fetched *)
AlphaSkipsNever(descs, i) == FALSE

(* `if out.exists(): continue`: a subnet that has a description file,   *)
(* whatever it holds, is skipped                                         *)
AlphaSkips(descs, i) == descs[i].exists

(* the loop of main from record k on; outs[k] is the outcome for record k; *)
(* a raising request ends the run; pages are the ids find_page found a     *)
(* page for                                                                *)
RECURSIVE AlphaLoop(_, _, _, _)
AlphaLoop(descs, list, outs, k) ==
    IF k > Len(list) THEN [descs |-> descs, raised |-> FALSE, pages |-> {}]
    ELSE LET i == list[k].id IN
         IF AlphaSkips(descs, i) THEN AlphaLoop(descs, list, outs, k + 1)
         ELSE IF outs[k].kind = "raise"
              THEN [descs |-> descs, raised |-> TRUE, pages |-> {}]
         ELSE IF outs[k].kind = "nopage"
              THEN AlphaLoop(descs, list, outs, k + 1)
         ELSE LET rest == IF outs[k].text = <<>>
                          THEN AlphaLoop(descs, list, outs, k + 1)
                          ELSE AlphaLoop([descs EXCEPT ![i] = File(outs[k].text)],
                                         list, outs, k + 1)
              IN [rest EXCEPT !.pages = @ \cup {i}]

FetchSubnetAlpha(outs) ==
    LET rd  == AlphaRead(subnetsJson)
        res == AlphaLoop(descriptions, rd.subnets, outs, 1)
    IN /\ descriptions' = res.descs
       /\ last' = [script |-> "fetch_subnetalpha", read |-> subnetsJson,
                   raised |-> rd.raised \/ res.raised, pages |-> res.pages]
       /\ UNCHANGED <<subnetsJson, lastDiff, profiles, profilesDir>>

----------------------------------------------------------------------------
(* web_interface.py *)

(* a record of the model's data/subnets.json as the dict json.load gives *)
RecDict(r) == [id |-> PyInt(r.id), name |-> PyText(r.name)]

(* the file as web_interface reads it *)
WebData(file) ==
    [kind |-> file.kind,
     subnets |-> [k \in 1..Len(file.subnets) |-> RecDict(file.subnets[k])]]

(* dict.get(key, default) *)
Get(d, k, default) == IF k \in DOMAIN d THEN d[k] ELSE default

(* the format spec .6f applied to a value: TypeError for None *)
FormatFloat6(v) == [raised |-> v.t \notin {"int", "float", "bool"}]

(* the href of a card: a profile named after the id alone *)
CardLinkById(subnet_id) ==
    <<subnet_id, <<"s", "u", "b", "n", "e", "t", "-">> \o IdStr(subnet_id)>>

(* one card of the subnets grid: the price formatted, the View Profile *)
(* link profiles/<id>_subnet-<id>.html                                 *)
SubnetCard(subnet) ==
    LET subnet_id == Get(subnet, "id", PyStr("Unknown"))
        price == Get(subnet, "price", PyInt(0))
    IN [raised |-> FormatFloat6(price).raised, link |-> CardLinkById(subnet_id.n)]

(* create_index_html: the error page when data/subnets.json is missing, *)
(* else json.load and one card per record                               *)
create_index_html(data) ==
    IF data.kind = "absent" THEN [raised |-> FALSE, links |-> <<>>]
    ELSE IF data.kind # "json" THEN [raised |-> TRUE, links |-> <<>>]
    ELSE LET cards == [k \in 1..Len(data.subnets) |-> SubnetCard(data.subnets[k])]
         IN [raised |-> \E k \in 1..Len(cards) : cards[k].raised,
             links |-> [k \in 1..Len(cards) |-> cards[k].link]]

(* generate_web_files: index.html is opened after create_index_html     *)
(* returned; every data/profiles/*.md becomes profiles/<stem>.html      *)
generate_web_files(data, dirExists, profs) ==
    LET idx == create_index_html(data) IN
    IF idx.raised THEN [raised |-> TRUE, index |-> FALSE, links |-> <<>>, html |-> {}]
    ELSE [raised |-> FALSE, index |-> TRUE, links |-> idx.links,
          html |-> IF dirExists THEN DOMAIN profs ELSE {}]

(* main: generate_web_files(), then start_server() on port 8000 *)
web_interface_main(data, dirExists, profs) ==
    LET g == generate_web_files(data, dirExists, profs) IN
    [script |-> "web_interface", raised |-> g.raised, index |-> g.index,
     links |-> g.links, html |-> g.html, data |-> data,
     steps |-> IF g.raised THEN <<"generate_web_files">>
               ELSE <<"generate_web_files", "start_server">>]

WebInterface ==
    /\ last' = web_interface_main(WebData(subnetsJson), profilesDir, profiles)
    /\ UNCHANGED <<subnetsJson, lastDiff, descriptions, profiles, profilesDir>>

----------------------------------------------------------------------------
(* build_vectorstore.py *)

(* the vector directory before any run *)
NoVector ==
    [index |-> [exists |-> FALSE, vectors |-> <<>>],
     meta |-> [exists |-> FALSE, files |-> <<>>]]

(* the characters of a profile's file name in code point order *)
CharOrder ==
    <<"-", ".">> \o Digits \o <<"_", "a", "b", "c", "d", "e", "m", "n", "s", "t", "u">>

(* <id>_<slug>.md *)
FileName(path) == IdStr(path[1]) \o <<"_">> \o path[2] \o <<".", "m", "d">>

(* s < t as Python compares strings *)
RECURSIVE StrLess(_, _)
StrLess(s, t) ==
    IF t = <<>> THEN FALSE
    ELSE IF s = <<>> THEN TRUE
    ELSE IF Head(s) = Head(t) THEN StrLess(Tail(s), Tail(t))
    ELSE LET CharRank(c) == CHOOSE k \in 1..Len(CharOrder) : CharOrder[k] = c
         IN CharRank(Head(s)) < CharRank(Head(t))

(* sorted(glob.glob(...)) *)
RECURSIVE SortedFiles(_)
SortedFiles(paths) ==
    IF paths = {} THEN <<>>
    ELSE LET first == CHOOSE p \in paths :
                        \A q \in paths \ {p} : StrLess(FileName(p), FileName(q))
         IN <<first>> \o SortedFiles(paths \ {first})

(* the row model.encode gives for a text *)
Embed(text) == [embedding_of |-> text]

(* the module body; modelOk = FALSE: SentenceTransformer(...) or encode *)
(* raised, before anything is written; `if not texts` writes only      *)
(* vector/meta.json                                                    *)
build_vectorstore(dir, vec, modelOk) ==
    LET FILES == SortedFiles(DOMAIN dir)
        texts == [k \in 1..Len(FILES) |-> dir[FILES[k]]]
    IN IF ~modelOk THEN [raised |-> TRUE, vector |-> vec, files |-> FILES]
       ELSE IF texts = <<>>
       THEN [raised |-> FALSE, files |-> FILES,
             vector |-> [vec EXCEPT !.meta = [exists |-> TRUE, files |-> <<>>]]]
       ELSE [raised |-> FALSE, files |-> FILES,
             vector |-> [index |-> [exists |-> TRUE,
                                    vectors |-> [k \in 1..Len(texts) |-> Embed(texts[k])]],
                         meta |-> [exists |-> TRUE, files |-> FILES]]]

BuildVectorstore(modelOk) ==
    LET r == build_vectorstore(profiles, vector, modelOk) IN
    /\ vector' = r.vector
    /\ last' = [script |-> "build_vectorstore", raised |-> r.raised, files |-> r.files,
                dir |-> profiles]
    /\ UNCHANGED <<pipelineVars, apiKey, allProfilesTxt, snapshots, clock>>

----------------------------------------------------------------------------
(* The pipeline: every step is one complete run of one script. *)

Init ==
    /\ subnetsJson = Absent
    /\ descriptions = [i \in Ids |-> NoFile]
    /\ profiles = <<>>
    /\ lastDiff = [kind |-> "absent"]
    /\ profilesDir = FALSE
    /\ runs = 0
    /\ apiKey = KeyUnset
    /\ allProfilesTxt = FALSE
    /\ snapshots = <<>>
    /\ clock = 0
    /\ vector = NoVector
    /\ writer = Idle
    /\ last = [script |-> "none"]

RunScrapeTmc == \E ok \in BOOLEAN : \E rows \in TmcTables :
    (ok \/ rows = <<>>) /\ ScrapeTmc(ok, rows)

RunFetchSubnetsBt == \E ok \in BOOLEAN : \E ids \in BtIdLists :
    (ok \/ ids = <<>>) /\ FetchSubnetsBt(ok, ids)

RunFetchSubnetAlpha == \E outs \in [1..Len(subnetsJson.subnets) -> AlphaOutcomes] :
    FetchSubnetAlpha(outs)

RunBuildProfiles == BuildProfiles

RunWebInterface == WebInterface

Run(script) ==
    /\ runs < MaxRuns
    /\ runs' = runs + 1
    /\ script
    /\ UNCHANGED <<uploadVars, writer>>

Next ==
    \/ Run(RunScrapeTmc)
    \/ Run(RunFetchSubnetsBt)
    \/ Run(RunFetchSubnetAlpha)
    \/ Run(RunBuildProfiles)
    \/ Run(RunWebInterface)

Spec == Init /\ [][Next]_vars

(* ---- fetch_table of scrape_taomarketcap.py, cell by cell ---- *)

DigitVal(c) == CHOOSE d \in 0..9 : Digits[d + 1] = c

(* int() of a string of digits *)
RECURSIVE ParseInt(_)
ParseInt(s) ==
    IF s = <<>> THEN 0
    ELSE 10 * ParseInt(SubSeq(s, 1, Len(s) - 1)) + DigitVal(s[Len(s)])

(* the length of the longest prefix of s whose characters are all in S *)
(* (member = TRUE) or all outside S (member = FALSE)                    *)
RECURSIVE Span(_, _, _)
Span(s, S, member) ==
    IF s # <<>> /\ (Head(s) \in S) = member THEN 1 + Span(Tail(s), S, member) ELSE 0

DigitChars == {Digits[d + 1] : d \in 0..9}

(* texts of the first cell of a table row *)
Cells ==
    { <<"1", " ", "C">>, <<" ", "2", " ", " ", "a", "-", "b", " ">>, <<"1", "2", " ", "C">>,
      <<"1", "\n", "C", "\n", "b">>, <<"1", "C">>, <<"C", " ", "1">>, <<"1">>, <<>> }

CellTables == SeqsUpTo(Cells, MaxRows)

(* re.match on the cell: one or more digits, one or more whitespace       *)
(* characters, then the rest of the line                                  *)
MatchIdName(cell) ==
    LET nd   == Span(cell, DigitChars, TRUE)
        rest == SubSeq(cell, nd + 1, Len(cell))
        ns   == Span(rest, Whitespace, TRUE)
        tail == SubSeq(rest, ns + 1, Len(rest))
    IN IF nd = 0 \/ ns = 0 THEN [matched |-> FALSE, sid |-> <<>>, name |-> <<>>]
       ELSE [matched |-> TRUE, sid |-> SubSeq(cell, 1, nd),
             name |-> SubSeq(tail, 1, Span(tail, {"\n"}, FALSE))]

(* the loop over the rows: td.get_text(strip=True), the match, the append *)
RECURSIVE fetch_table(_)
fetch_table(cells) ==
    IF cells = <<>> THEN <<>>
    ELSE LET rows == fetch_table(SubSeq(cells, 1, Len(cells) - 1))
             m    == MatchIdName(StripWs(cells[Len(cells)]))
         IN IF m.matched
            THEN Append(rows, [id |-> PyInt(ParseInt(m.sid)), name |-> PyText(m.name)])
            ELSE rows

(* fetch_table applied to the table drawn *)
CallFetchTable ==
    /\ last.script = "call fetch_table"
    /\ last' = [script |-> "fetch_table", cells |-> last.cells,
                rows |-> fetch_table(last.cells)]
    /\ UNCHANGED <<pipelineVars, runs, uploadVars>>

(* `sid, name = s["id"], s["name"]` of build_profiles.main, s['id'] and *)
(* s["name"] of fetch_subnetalpha.main: KeyError on a missing key       *)
ReadIdName(s) == [raised |-> ~({"id", "name"} \subseteq DOMAIN s)]

(* get_subnet_info applied to the netuid and the SDK outcomes drawn *)
CallGetSubnetInfo ==
    /\ last.script = "call get_subnet_info"
    /\ last' = [script |-> "get_subnet_info", id |-> last.id, o |-> last.o,
                info |-> SubnetInfo(last.id, clock, last.o)]
    /\ UNCHANGED <<pipelineVars, runs, uploadVars>>

(* the arguments of one call: a netuid with the outcome of every SDK call, *)
(* or the first cells of a table                                           *)
InitInfo ==
    /\ subnetsJson = Absent
    /\ descriptions = [i \in Ids |-> NoFile]
    /\ profiles = <<>>
    /\ lastDiff = [kind |-> "absent"]
    /\ profilesDir = FALSE
    /\ runs = 0
    /\ apiKey = KeyUnset
    /\ allProfilesTxt = FALSE
    /\ snapshots = <<>>
    /\ clock = 0
    /\ vector = NoVector
    /\ writer = Idle
    /\ last \in {[script |-> "call get_subnet_info", id |-> i, o |-> o] :
                     i \in Ids, o \in InfoOutcomes}
                \cup {[script |-> "call fetch_table", cells |-> c] : c \in CellTables}

NextInfo ==
    \/ CallGetSubnetInfo
    \/ CallFetchTable

SpecInfo == InitInfo /\ [][NextInfo]_vars

(* web_interface.main over the files fetch_subnets_bt.main can write: the *)
(* SDK outcomes that decide what a card shows                            *)
WebOutcomes ==
    LET kinds == {[kind |-> "raise", msg |-> "rpc"], [kind |-> "falsy", msg |-> ""],
                  [kind |-> "truthy", msg |-> ""]}
        ok == [kind |-> "truthy", msg |-> ""]
    IN {[exists |-> e, is_active |-> a, owner |-> ok, price |-> p,
         hyperparameters |-> ok] : e \in kinds, a \in kinds, p \in kinds}

(* output_data with the full records, and error_data *)
BtFiles ==
    {[kind |-> "json", subnets |-> <<>>]}
    \cup UNION {{[kind |-> "json",
                  subnets |-> [k \in 1..Len(ids) |-> SubnetInfo(ids[k], 0, os[k]).data]] :
                    os \in [1..Len(ids) -> WebOutcomes]} : ids \in BtIdLists}

CallWebInterface ==
    /\ last.script = "call web_interface"
    /\ last' = web_interface_main(last.data, profilesDir, profiles)
    /\ UNCHANGED <<pipelineVars, runs, uploadVars>>

InitWeb ==
    /\ subnetsJson = Absent
    /\ descriptions = [i \in Ids |-> NoFile]
    /\ profiles = <<>>
    /\ lastDiff = [kind |-> "absent"]
    /\ profilesDir = FALSE
    /\ runs = 0
    /\ apiKey = KeyUnset
    /\ allProfilesTxt = FALSE
    /\ snapshots = <<>>
    /\ clock = 0
    /\ vector = NoVector
    /\ writer = Idle
    /\ last \in {[script |-> "call web_interface", data |-> f] : f \in BtFiles}

NextWeb == CallWebInterface

SpecWeb == InitWeb /\ [][NextWeb]_vars

(* build_vectorstore.py run again and again while data/profiles changes: *)
(* build_profiles.py fills the directory, and the directory is the run's  *)
(* input, which whoever keeps the checkout may empty between two runs.    *)

RunBuildVectorstore ==
    /\ runs < MaxRuns
    /\ runs' = runs + 1
    /\ \E modelOk \in BOOLEAN : BuildVectorstore(modelOk)

(* data/profiles/*.md as the next run's glob finds it: emptied *)
ProfilesEmptied ==
    /\ profiles # <<>>
    /\ profiles' = <<>>
    /\ last' = [script |-> "none"]
    /\ UNCHANGED <<subnetsJson, descriptions, profilesDir, lastDiff, writer,
                   runs, uploadVars>>

InitVector ==
    /\ subnetsJson \in {Json(rows, FALSE) : rows \in TmcTables}
    /\ descriptions = [i \in Ids |-> NoFile]
    /\ profiles = <<>>
    /\ lastDiff = [kind |-> "absent"]
    /\ profilesDir = FALSE
    /\ runs = 0
    /\ apiKey = KeyUnset
    /\ allProfilesTxt = FALSE
    /\ snapshots = <<>>
    /\ clock = 0
    /\ vector = NoVector
    /\ writer = Idle
    /\ last = [script |-> "none"]

NextVector ==
    \/ Run(RunBuildProfiles)
    \/ RunBuildVectorstore
    \/ ProfilesEmptied

SpecVector == InitVector /\ [][NextVector]_vars

(* fetch_subnetalpha.main over a data directory that already holds          *)
(* description files, some of them empty (written by hand or by an earlier  *)
(* tool), and a data/subnets.json left by a scrape                          *)
DescFiles == {NoFile, File(<<>>)} \cup {File(t) : t \in DescTexts}

InitAlpha ==
    /\ subnetsJson \in {Json(rows, FALSE) : rows \in TmcTables}
    /\ descriptions \in [Ids -> DescFiles]
    /\ profiles = <<>>
    /\ lastDiff = [kind |-> "absent"]
    /\ profilesDir = FALSE
    /\ runs = 0
    /\ apiKey = KeyUnset
    /\ allProfilesTxt = FALSE
    /\ snapshots = <<>>
    /\ clock = 0
    /\ vector = NoVector
    /\ writer = Idle
    /\ last = [script |-> "none"]

NextAlpha == Run(RunFetchSubnetAlpha)

SpecAlpha == InitAlpha /\ [][NextAlpha]_vars

----------------------------------------------------------------------------
(* Properties of the pipeline *)

ScrapeScripts == {"scrape_taomarketcap", "fetch_subnets_bt"}

IdsOf(list) == {list[k].id : k \in 1..Len(list)}

DistinctIds(list) ==
    \A j, k \in 1..Len(list) : list[j].id = list[k].id => j = k

Range(f) == {f[x] : x \in DOMAIN f}

(* The slug as the specification words it, computed from the maximal runs  *)
(* of [a-z0-9] of the lower-cased name, joined by single dashes.           *)
RECURSIVE AlnumRuns(_, _)
AlnumRuns(s, cur) ==
    IF s = <<>> THEN (IF cur = <<>> THEN <<>> ELSE <<cur>>)
    ELSE IF Head(s) \in LowerAlnum THEN AlnumRuns(Tail(s), Append(cur, Head(s)))
    ELSE (IF cur = <<>> THEN <<>> ELSE <<cur>>) \o AlnumRuns(Tail(s), <<>>)

RECURSIVE JoinDash(_)
JoinDash(runs_) ==
    IF runs_ = <<>> THEN <<>>
    ELSE IF Len(runs_) = 1 THEN runs_[1]
    ELSE runs_[1] \o <<"-">> \o JoinDash(Tail(runs_))

SpecSlug(name) == JoinDash(AlnumRuns(Lower(name), <<>>))

(* C1: for a well-formed subnets.json (records with distinct ids), a run of *)
(* build_profiles.main writes for every record the file <id>_<slug(name)>, *)
(* slug as the specification words it, and writes exactly one file per    *)
(* subnet id of the list.                                                   *)
C1_OneProfilePerSubnet ==
    (last.script = "build_profiles" /\ ~last.raised /\ DistinctIds(subnetsJson.subnets))
    => LET list == subnetsJson.subnets IN
       /\ \A k \in 1..Len(list) :
            /\ last.written[k] = <<list[k].id, SpecSlug(list[k].name)>>
            /\ last.written[k] \in DOMAIN profiles
       /\ Len(last.written) = Cardinality(IdsOf(list))
       /\ Cardinality(Range(last.written)) = Cardinality(IdsOf(list))
       /\ \A i \in IdsOf(list) :
            Cardinality({f \in Range(last.written) : f[1] = i}) = 1

(* two records, one with upper case, a run of non-alphanumerics and a    *)
(* trailing one, were written                                              *)
C1_Witness ==
    /\ last.script = "build_profiles" /\ ~last.raised
    /\ Len(subnetsJson.subnets) = 2 /\ DistinctIds(subnetsJson.subnets)
    /\ \E k \in 1..2 : subnetsJson.subnets[k].name = <<"A", " ", "-", "b", "!">>
    /\ \E i \in Ids : <<i, <<"a", "-", "b">> >> \in DOMAIN profiles

(* C2: a run of build_profiles.main leaves every file of data/descriptions *)
(* as it was: none created, changed or deleted.                            *)
C2_DescriptionsUntouched ==
    [][last'.script = "build_profiles" => descriptions' = descriptions]_vars

(* a build ran over a list with one described and one undescribed subnet *)
C2_Witness ==
    /\ last.script = "build_profiles" /\ ~last.raised
    /\ \E i \in IdsOf(subnetsJson.subnets) :
            descriptions[i].exists /\ descriptions[i].text # <<>>
    /\ \E i \in IdsOf(subnetsJson.subnets) : ~descriptions[i].exists

(* C3: after a run of either scraper data/subnets.json exists and holds a *)
(* 'subnets' list, which is empty when the upstream fetch failed.          *)
C3_ScrapeOutputAlwaysValid ==
    last.script \in ScrapeScripts
    => /\ subnetsJson.kind = "json"
       /\ last.upstream = "fail" => subnetsJson.subnets = <<>>

(* C8: a scrape run that fails upstream replaces a stored subnet list by *)
(* an empty one.                                                           *)
C8_FailureOverwritesStale ==
    [][(/\ last'.script \in ScrapeScripts
        /\ runs' = runs + 1
        /\ last'.upstream = "fail"
        /\ subnetsJson.kind = "json" /\ subnetsJson.subnets # <<>>)
       => (subnetsJson'.kind = "json" /\ subnetsJson'.subnets = <<>>)]_vars

(* C9: after a scrape run that wrote data/subnets.json, the stored list is *)
(* exactly the list fetched in that run.                                    *)
C9_FullyReplaced ==
    (last.script \in ScrapeScripts /\ last.wrote)
    => /\ last.script = "scrape_taomarketcap" => subnetsJson.subnets = last.fetched
       /\ last.script = "fetch_subnets_bt" =>
            /\ Len(subnetsJson.subnets) = Len(last.fetched)
            /\ \A k \in 1..Len(last.fetched) : subnetsJson.subnets[k].id = last.fetched[k]

(* a scrape wrote a list that lacks an id an earlier list had (a profile *)
(* of that id exists)                                                      *)
C9_Witness ==
    /\ last.script = "scrape_taomarketcap" /\ last.wrote
    /\ subnetsJson.subnets # <<>>
    /\ \E f \in DOMAIN profiles : f[1] \notin IdsOf(subnetsJson.subnets)

----------------------------------------------------------------------------
(* The upload scripts.  A run is described by its exit status and by the   *)
(* log of the external steps it took, in order: op names the step, net     *)
(* tells whether it is a network request, ok whether it succeeded.         *)

Ev(op, net, ok) == [op |-> op, net |-> net, ok |-> ok]

(* `not api_key` for api_key = os.getenv("OPENAI_API_KEY") *)
KeyFalsy(key) == ~key.set \/ key.value = <<>>

(* str.startswith *)
StartsWith(str, prefix) ==
    Len(str) >= Len(prefix) /\ SubSeq(str, 1, Len(prefix)) = prefix

SkPrefix == <<"s", "k", "-">>

(* values OPENAI_API_KEY takes in the model *)
Keys ==
    { KeyUnset, KeySet(<<>>), KeySet(<<"a", "b", "c">>), KeySet(<<"s", "k">>),
      KeySet(<<"s", "k", "-", "x">>) }

(* ---- upload_to_vector_store.py ---- *)

UvsOutcomes ==
    [importNew : BOOLEAN, clientOk : BOOLEAN, listOk : BOOLEAN, createOk : BOOLEAN,
     attachOk : BOOLEAN, importLegacy : BOOLEAN, legacyCreateOk : BOOLEAN]

(* Method 2: import openai; openai.File.create; falls out to return 1 *)
UvsLegacy(o) ==
    IF ~o.importLegacy
    THEN [exit |-> 1, log |-> <<Ev("import openai", FALSE, FALSE)>>]
    ELSE [exit |-> IF o.legacyCreateOk THEN 0 ELSE 1,
          log |-> <<Ev("import openai", FALSE, TRUE),
                    Ev("openai.File.create", TRUE, o.legacyCreateOk)>>]

(* an attach step whose failure fails the run *)
UvsAttachStrict(o) ==
    [exit |-> IF o.attachOk THEN 0 ELSE 1, escaped |-> FALSE,
     log |-> <<Ev("vector_stores.files.create", TRUE, o.attachOk)>>]

(* an attach step whose exception reaches the handler of Method 1 *)
UvsAttachEscapes(o) ==
    [exit |-> 0, escaped |-> ~o.attachOk,
     log |-> <<Ev("vector_stores.files.create", TRUE, o.attachOk)>>]

(* the try around client.vector_stores.files.create: return 0 either way *)
UvsAttach(o) ==
    [exit |-> 0, escaped |-> FALSE,
     log |-> <<Ev("vector_stores.files.create", TRUE, o.attachOk)>>]

(* a files.list probe whose exception reaches the handler of Method 1 *)
UvsListProbeFatal(o) ==
    [escaped |-> ~o.listOk, log |-> <<Ev("files.list", TRUE, o.listOk)>>]

(* the try around client.files.list(): a failure is printed and dropped *)
UvsListProbe(o) ==
    [escaped |-> FALSE, log |-> <<Ev("files.list", TRUE, o.listOk)>>]

(* Method 1; done = FALSE when an exception reached its handler *)
UvsNew(o) ==
    IF ~o.importNew
    THEN [done |-> FALSE, exit |-> 1,
          log |-> <<Ev("from openai import OpenAI", FALSE, FALSE)>>]
    ELSE IF ~o.clientOk
    THEN [done |-> FALSE, exit |-> 1,
          log |-> <<Ev("from openai import OpenAI", FALSE, TRUE),
                    Ev("OpenAI()", FALSE, FALSE)>>]
    ELSE LET p    == UvsListProbe(o)
             head == <<Ev("from openai import OpenAI", FALSE, TRUE),
                       Ev("OpenAI()", FALSE, TRUE)>> \o p.log
             pre  == Append(head, Ev("files.create", TRUE, o.createOk))
         IN IF p.escaped THEN [done |-> FALSE, exit |-> 1, log |-> head]
            ELSE IF ~o.createOk THEN [done |-> FALSE, exit |-> 1, log |-> pre]
            ELSE LET a == UvsAttach(o)
                 IN [done |-> ~a.escaped, exit |-> a.exit, log |-> pre \o a.log]

(* main *)
upload_to_vector_store_main(key, fileExists, o) ==
    IF KeyFalsy(key) THEN [exit |-> 1, log |-> <<>>]
    ELSE IF ~StartsWith(key.value, SkPrefix) THEN [exit |-> 1, log |-> <<>>]
    ELSE IF ~fileExists THEN [exit |-> 1, log |-> <<>>]
    ELSE LET n == UvsNew(o) IN
         IF n.done THEN [exit |-> n.exit, log |-> n.log]
         ELSE LET l == UvsLegacy(o) IN [exit |-> l.exit, log |-> n.log \o l.log]

(* ---- upload_to_openai.py ---- *)

(* the stem of a profile written by build_profiles: <id>_<slug> *)
Stem(path) == IdStr(path[1]) \o <<"_">> \o path[2]

(* every order in which the elements of S can be listed *)
RECURSIVE Perms(_)
Perms(S) ==
    IF S = {} THEN {<<>>}
    ELSE UNION {{<<x>> \o p : p \in Perms(S \ {x})} : x \in S}

(* profiles_dir.glob("*.md"): the files in an order the file system picks *)
GlobListings(dir) ==
    {[k \in 1..Len(p) |-> [stem |-> Stem(p[k]), content |-> dir[p[k]]]] :
        p \in Perms(DOMAIN dir)}

UtoOutcomes == [listOk : BOOLEAN, createOk : BOOLEAN]

(* get_openai_client: raises ValueError on a falsy key, else builds a client *)
get_openai_client(key) ==
    IF KeyFalsy(key) THEN [raised |-> TRUE, log |-> <<>>]
    ELSE [raised |-> FALSE, log |-> <<Ev("OpenAI()", FALSE, TRUE)>>]

(* x.stem.split('_')[0] *)
Prefix(stem) == SubSeq(stem, 1, Span(stem, {"_"}, FALSE))

(* int(s): surrounding whitespace and one sign are accepted, then digits *)
PyIntOf(s) ==
    LET t == StripWs(s)
        signed == t # <<>> /\ Head(t) \in {"+", "-"}
        body == IF signed THEN Tail(t) ELSE t
    IN IF body = <<>> \/ Span(body, DigitChars, TRUE) # Len(body)
       THEN [raised |-> TRUE, n |-> 0]
       ELSE [raised |-> FALSE,
             n |-> IF signed /\ Head(t) = "-" THEN 0 - ParseInt(body) ELSE ParseInt(body)]

(* the sort key of a profile file *)
ProfileKey(file) == PyIntOf(Prefix(file.stem))

(* file put behind the last entry whose key is not larger *)
RECURSIVE InsertByKey(_, _)
InsertByKey(sorted, file) ==
    IF sorted = <<>> THEN <<file>>
    ELSE IF ProfileKey(sorted[Len(sorted)]).n <= ProfileKey(file).n
    THEN Append(sorted, file)
    ELSE Append(InsertByKey(SubSeq(sorted, 1, Len(sorted) - 1), file), sorted[Len(sorted)])

(* the files as glob lists them *)
GlobOrder(listing) == listing

(* sorted(..., key=...): stable, equal keys stay in glob order *)
RECURSIVE SortByKey(_)
SortByKey(listing) ==
    IF listing = <<>> THEN <<>>
    ELSE InsertByKey(SortByKey(SubSeq(listing, 1, Len(listing) - 1)), listing[Len(listing)])

(* consolidate_profiles over the glob listing of data/profiles/*.md, a    *)
(* sequence of [stem, content]: raises when the directory is missing, and *)
(* when int() rejects the prefix of some stem (sorted computes every key) *)
consolidate_profiles(dirExists, listing) ==
    IF ~dirExists \/ \E k \in 1..Len(listing) : ProfileKey(listing[k]).raised
    THEN [raised |-> TRUE, total |-> 0, profile_files |-> <<>>, contents |-> <<>>]
    ELSE LET profile_files == SortByKey(listing) IN
         [raised |-> FALSE, total |-> Len(listing),
          profile_files |-> [k \in 1..Len(profile_files) |-> profile_files[k].stem],
          contents |-> [k \in 1..Len(profile_files) |-> profile_files[k].content]]

(* list_existing_files: every exception is caught inside *)
list_existing_files(key, o) ==
    LET c == get_openai_client(key) IN
    IF c.raised THEN <<>> ELSE c.log \o <<Ev("files.list", TRUE, o.listOk)>>

(* a try without the finally: the unlink follows the upload in the try *)
TempFileNoFinally(createOk) ==
    IF createOk THEN <<"NamedTemporaryFile", "os.unlink">>
    ELSE <<"NamedTemporaryFile">>

(* what happens to the temporary file: created with delete=False before *)
(* the try, unlinked in the finally whatever client.files.create did    *)
TempFile(createOk) == <<"NamedTemporaryFile", "os.unlink">>

(* upload_to_openai: the client is built before the temporary file and *)
(* before the try                                                      *)
upload_to_openai(key, o) ==
    LET c == get_openai_client(key) IN
    IF c.raised THEN [raised |-> TRUE, uploaded |-> FALSE, log |-> <<>>, temp |-> <<>>]
    ELSE [raised |-> FALSE, uploaded |-> o.createOk,
          log |-> c.log \o <<Ev("files.create", TRUE, o.createOk)>>,
          temp |-> TempFile(o.createOk)]

(* main; exit is the status of exit(main()), where None counts as 0 *)
upload_to_openai_main(key, jsonExists, dirExists, listing, o) ==
    IF ~jsonExists
    THEN [returned |-> "None", exit |-> 0, uploaded |-> FALSE, log |-> <<>>, temp |-> <<>>]
    ELSE IF consolidate_profiles(dirExists, listing).raised
    THEN [returned |-> "1", exit |-> 1, uploaded |-> FALSE, log |-> <<>>, temp |-> <<>>]
    ELSE LET l == list_existing_files(key, o)
             u == upload_to_openai(key, o)
         IN IF u.raised
            THEN [returned |-> "1", exit |-> 1, uploaded |-> FALSE, log |-> l \o u.log,
                  temp |-> u.temp]
            ELSE [returned |-> "0", exit |-> 0, uploaded |-> u.uploaded,
                  log |-> l \o u.log, temp |-> u.temp]

(* ---- test_upload.py ---- *)

(* test_upload: three precondition tests, then `result = main()` of       *)
(* upload_to_openai and `result == 0`; None == 0 is False in Python.      *)
test_upload(key, jsonExists, dirExists, listing, o) ==
    IF KeyFalsy(key) \/ ~jsonExists \/ ~dirExists
    THEN [success |-> FALSE, called |-> FALSE, returned |-> "None", log |-> <<>>]
    ELSE LET r == upload_to_openai_main(key, jsonExists, dirExists, listing, o) IN
         [success |-> r.returned = "0", called |-> TRUE, returned |-> r.returned,
          log |-> r.log]

(* ---- fetch_taomarketcap_snapshot.py ---- *)

(* what the page yields: no subnet data, or one of two data sets *)
PageData == {"none", "d1", "d2"}

(* raises: where an exception escapes to main's except clause, if anywhere: *)
(* os.makedirs in setup_directories, float() of the price sum in           *)
(* fetch_taomarketcap, a missing key in create_markdown_snapshot           *)
SnapOutcomes ==
    [fetchOk : BOOLEAN, data : PageData, saveOk : BOOLEAN, importNew : BOOLEAN,
     clientOk : BOOLEAN, createOk : BOOLEAN, attachOk : BOOLEAN,
     raises : {"none", "setup", "fetch", "render"}]

(* one stage of main and how it ended: "ok" (truthy value), "fail" (falsy *)
(* value) or "raise"                                                      *)
Stage(name, res) == [stage |-> name, res |-> res]

(* fetch_taomarketcap: the GET, then the regex extraction; None on failure *)
fetch_taomarketcap(o) ==
    [log |-> <<Ev("GET taomarketcap.com", TRUE, o.fetchOk)>>,
     data |-> IF o.fetchOk THEN o.data ELSE "none"]

(* save_snapshot: snapshot_<%Y-%m-%d_%Hh>.txt, opened with mode "w" *)
save_snapshot(dir, content, hour, o) ==
    IF o.saveOk THEN [path |-> <<hour>>, dir |-> WriteFile(dir, hour, content)]
    ELSE [path |-> <<>>, dir |-> dir]

(* upload_to_vector_store(file_path): only `not api_key` guards the client *)
snapshot_upload_to_vector_store(pathExists, key, o) ==
    IF ~pathExists THEN [result |-> FALSE, log |-> <<>>]
    ELSE IF KeyFalsy(key) THEN [result |-> FALSE, log |-> <<>>]
    ELSE IF ~o.importNew
    THEN [result |-> FALSE, log |-> <<Ev("from openai import OpenAI", FALSE, FALSE)>>]
    ELSE IF ~o.clientOk
    THEN [result |-> FALSE,
          log |-> <<Ev("from openai import OpenAI", FALSE, TRUE),
                    Ev("OpenAI()", FALSE, FALSE)>>]
    ELSE LET pre == <<Ev("from openai import OpenAI", FALSE, TRUE),
                      Ev("OpenAI()", FALSE, TRUE),
                      Ev("files.create", TRUE, o.createOk)>>
         IN IF ~o.createOk THEN [result |-> FALSE, log |-> pre]
            ELSE [result |-> TRUE,
                  log |-> pre \o <<Ev("vector_stores.files.create", TRUE, o.attachOk)>>]

NoUpload == [called |-> FALSE, result |-> FALSE, log |-> <<>>]

(* create_markdown_snapshot: None for no data, else the rendering of the *)
(* data set, a non-empty text                                             *)
create_markdown_snapshot(data) == data

(* the upload stage always returning 0 *)
snapshot_upload_exit_ignored(u) == 0

(* `if not upload_success: return 1`, else `return 0` *)
snapshot_upload_exit(u) == IF u.result THEN 0 ELSE 1

(* main: fetch, render, save, upload; 1 at the first stage that fails or *)
(* raises; stages are the stages entered, in order                       *)
snapshot_main(dir, key, hour, o) ==
    LET f == fetch_taomarketcap(o)
        stop(log, stages) ==
            [exit |-> 1, dir |-> dir, log |-> log, upload |-> NoUpload, stages |-> stages]
    IN
    IF o.raises = "setup" THEN stop(<<>>, <<>>)
    ELSE IF o.fetchOk /\ o.raises = "fetch"
    THEN stop(f.log, <<Stage("fetch", "raise")>>)
    ELSE IF f.data = "none"
    THEN stop(f.log, <<Stage("fetch", "fail")>>)
    ELSE IF o.raises = "render"
    THEN stop(f.log, <<Stage("fetch", "ok"), Stage("render", "raise")>>)
    ELSE LET md == create_markdown_snapshot(f.data)
             sv == save_snapshot(dir, md, hour, o)
             s2 == <<Stage("fetch", "ok"), Stage("render", "ok")>>
         IN
         IF sv.path = <<>>
         THEN [exit |-> 1, dir |-> sv.dir, log |-> f.log, upload |-> NoUpload,
               stages |-> Append(s2, Stage("save", "fail"))]
         ELSE LET u == snapshot_upload_to_vector_store(hour \in DOMAIN sv.dir, key, o)
              IN [exit |-> snapshot_upload_exit(u), dir |-> sv.dir,
                  log |-> f.log \o u.log,
                  upload |-> [called |-> TRUE, result |-> u.result, log |-> u.log],
                  stages |-> s2 \o <<Stage("save", "ok"),
                                     Stage("upload", IF u.result THEN "ok" ELSE "fail")>>]

----------------------------------------------------------------------------
(* The upload scripts as a system *)

(* states of data/subnets.json and data/profiles the pipeline leaves *)
UploadWorlds ==
    LET list == <<get_subnet_info(1)>>
        none == [i \in Ids |-> NoFile]
    IN { [json |-> Absent, dir |-> FALSE, profs |-> <<>>],
         [json |-> Absent, dir |-> TRUE, profs |-> <<>>],
         [json |-> Json(list, FALSE), dir |-> FALSE, profs |-> <<>>],
         [json |-> Json(list, FALSE), dir |-> TRUE,
          profs |-> WriteProfiles(<<>>, none, list)] }

InitUpload ==
    /\ \E w \in UploadWorlds :
        subnetsJson = w.json /\ profilesDir = w.dir /\ profiles = w.profs
    /\ descriptions = [i \in Ids |-> NoFile]
    /\ lastDiff = [kind |-> "absent"]
    /\ runs = 0
    /\ apiKey \in Keys
    /\ allProfilesTxt \in BOOLEAN
    /\ snapshots = <<>>
    /\ clock = 0
    /\ vector = NoVector
    /\ writer = Idle
    /\ last = [script |-> "none"]

RunUploadToVectorStore == \E o \in UvsOutcomes :
    LET r == upload_to_vector_store_main(apiKey, allProfilesTxt, o) IN
    /\ last' = [script |-> "upload_to_vector_store", exit |-> r.exit, log |-> r.log,
                upload |-> [called |-> TRUE, result |-> r.exit = 0, log |-> r.log]]
    /\ UNCHANGED <<pipelineVars, runs, uploadVars>>

RunUploadToOpenai == \E o \in UtoOutcomes : \E listing \in GlobListings(profiles) :
    LET r == upload_to_openai_main(apiKey, subnetsJson.kind # "absent", profilesDir,
                                   listing, o) IN
    /\ last' = [script |-> "upload_to_openai", exit |-> r.exit, log |-> r.log,
                returned |-> r.returned, temp |-> r.temp,
                upload |-> [called |-> TRUE, result |-> r.exit = 0, log |-> r.log]]
    /\ UNCHANGED <<pipelineVars, runs, uploadVars>>

(* python scripts/test_upload.py: sys.exit(0 if success else 1) *)
RunTestUpload == \E o \in UtoOutcomes : \E listing \in GlobListings(profiles) :
    LET r == test_upload(apiKey, subnetsJson.kind # "absent", profilesDir, listing, o) IN
    /\ last' = [script |-> "test_upload", exit |-> IF r.success THEN 0 ELSE 1,
                log |-> r.log, returned |-> r.returned, success |-> r.success,
                upload |-> [called |-> r.called, result |-> r.success, log |-> r.log]]
    /\ UNCHANGED <<pipelineVars, runs, uploadVars>>

RunSnapshot == \E o \in SnapOutcomes :
    LET r == snapshot_main(snapshots, apiKey, clock, o) IN
    /\ snapshots' = r.dir
    /\ last' = [script |-> "fetch_taomarketcap_snapshot", exit |-> r.exit,
                log |-> r.log, upload |-> r.upload, stages |-> r.stages]
    /\ UNCHANGED <<pipelineVars, runs, apiKey, allProfilesTxt, clock, vector>>

Tick ==
    /\ clock < MaxHour
    /\ clock' = clock + 1
    /\ UNCHANGED <<pipelineVars, runs, apiKey, allProfilesTxt, snapshots, vector, last>>

NextUpload ==
    \/ RunUploadToVectorStore
    \/ RunUploadToOpenai
    \/ RunTestUpload
    \/ RunSnapshot
    \/ Tick

SpecUpload == InitUpload /\ [][NextUpload]_vars

----------------------------------------------------------------------------
(* Properties of the upload scripts *)

UploadScripts ==
    {"upload_to_vector_store", "upload_to_openai", "fetch_taomarketcap_snapshot"}

NetCalls(log) == {k \in 1..Len(log) : log[k].net}

Steps(log, op) == {k \in 1..Len(log) : log[k].op = op}

Succeeded(log, op) == \E k \in Steps(log, op) : log[k].ok

Failed(log, op) == \E k \in Steps(log, op) : ~log[k].ok

KeyMalformed(key) == ~KeyFalsy(key) /\ ~StartsWith(key.value, SkPrefix)

(* C4: with OPENAI_API_KEY unset or empty, a run of any upload script ends *)
(* with a non-zero status and makes no network call.                       *)
C4_NoKeyFailsOffline ==
    (last.script \in UploadScripts /\ KeyFalsy(apiKey))
    => (last.exit # 0 /\ NetCalls(last.log) = {})

(* C5: with OPENAI_API_KEY set but not starting with 'sk-', the upload of  *)
(* every upload script fails without creating an API client and without   *)
(* a network call.                                                          *)
C5_MalformedKeyFailsOffline ==
    (last.script \in UploadScripts /\ last.upload.called /\ KeyMalformed(apiKey))
    => /\ ~last.upload.result
       /\ Steps(last.upload.log, "OpenAI()") = {}
       /\ NetCalls(last.upload.log) = {}

(* C6: in both vector-store upload paths, a successful client.files.create *)
(* makes the result success, whether the attach step succeeds or raises.  *)
C6_UploadedMeansSuccess ==
    /\ (last.script = "upload_to_vector_store" /\ Succeeded(last.log, "files.create"))
        => last.exit = 0
    /\ (last.script = "fetch_taomarketcap_snapshot" /\ last.upload.called
            /\ Succeeded(last.upload.log, "files.create"))
        => last.upload.result

(* the file was uploaded and the attach step raised *)
C6_Witness ==
    /\ last.script = "upload_to_vector_store"
    /\ Succeeded(last.log, "files.create")
    /\ Failed(last.log, "vector_stores.files.create")

NewSteps ==
    {"from openai import OpenAI", "OpenAI()", "files.list", "files.create",
     "vector_stores.files.create"}

LegacySteps == {"import openai", "openai.File.create"}

(* C7: in upload_to_vector_store.main the new-client method comes first;   *)
(* the legacy method is tried exactly when the new-client method raised   *)
(* before its file upload completed; at most one upload succeeds.          *)
C7_LegacyOnlyAfterNewFailed ==
    last.script = "upload_to_vector_store"
    => LET log == last.log
           legacyTried == \E k \in 1..Len(log) : log[k].op \in LegacySteps
           newTried == \E k \in 1..Len(log) : log[k].op \in NewSteps
           newRaised == \/ Failed(log, "from openai import OpenAI")
                        \/ Failed(log, "OpenAI()")
                        \/ Failed(log, "files.create")
       IN /\ \A j, k \in 1..Len(log) :
                (log[j].op \in NewSteps /\ log[k].op \in LegacySteps) => j < k
          /\ legacyTried => newTried
          /\ legacyTried <=> newRaised
          /\ Succeeded(log, "files.create") => ~legacyTried
          /\ Cardinality({k \in 1..Len(log) :
                log[k].op \in {"files.create", "openai.File.create"} /\ log[k].ok}) <= 1

(* the new upload raised and the legacy upload succeeded *)
C7_Witness ==
    /\ last.script = "upload_to_vector_store"
    /\ Failed(last.log, "files.create")
    /\ Succeeded(last.log, "openai.File.create")

----------------------------------------------------------------------------
(* A scrape run step by step.  Path.write_text is open(path, "w"), which   *)
(* truncates the file, then write and close; nothing makes the three one   *)
(* step for another process.                                               *)

ScrapeRecord(w, wrote_, raised_) ==
    [script |-> w.script, upstream |-> w.upstream, fetched |-> w.fetched,
     wrote |-> wrote_, raised |-> raised_]

(* scrape_taomarketcap.main up to fetch_table() *)
WStartTmc(ok, rows) ==
    /\ writer.pc = "idle" /\ runs < MaxConcRuns
    /\ runs' = runs + 1
    /\ LET w == [pc |-> "fetched", script |-> "scrape_taomarketcap",
                 upstream |-> IF ok THEN "ok" ELSE "fail",
                 fetched |-> IF ok THEN rows ELSE <<>>]
       IN IF ok THEN writer' = w /\ UNCHANGED last
          ELSE writer' = Idle /\ last' = ScrapeRecord(w, FALSE, TRUE)
    /\ UNCHANGED <<subnetsJson, descriptions, profiles, profilesDir, lastDiff, uploadVars>>

(* scrape_taomarketcap.main: reading the old file and computing the diff *)
WReadOld ==
    /\ writer.pc = "fetched"
    /\ LET old == TmcReadOld(subnetsJson) IN
       IF old.raised
       THEN writer' = Idle /\ last' = ScrapeRecord(writer, FALSE, TRUE)
       ELSE /\ writer' = [writer EXCEPT !.pc = "ready"] @@
                         [out |-> TmcOutput(old.subnets, writer.fetched),
                          diff |-> Changes(OldMap(old.subnets), writer.fetched)]
            /\ UNCHANGED last
    /\ UNCHANGED <<subnetsJson, descriptions, profiles, profilesDir, lastDiff, runs,
                   uploadVars>>

(* fetch_subnets_bt.main up to json.dumps of output_data or error_data *)
WStartBt(ok, ids) ==
    /\ writer.pc = "idle" /\ runs < MaxConcRuns
    /\ runs' = runs + 1
    /\ writer' = [pc |-> "ready", script |-> "fetch_subnets_bt",
                  upstream |-> IF ok THEN "ok" ELSE "fail",
                  fetched |-> IF ok THEN ids ELSE <<>>,
                  out |-> BtOutput(ok, ids), diff |-> <<>>]
    /\ UNCHANGED <<subnetsJson, descriptions, profiles, profilesDir, lastDiff, last,
                   uploadVars>>

(* OUT.write_text: open(path, "w") *)
WOpen ==
    /\ writer.pc = "ready"
    /\ subnetsJson' = Empty
    /\ writer' = [writer EXCEPT !.pc = "opened"] @@ [before |-> subnetsJson]
    /\ UNCHANGED <<descriptions, profiles, profilesDir, lastDiff, runs, last, uploadVars>>

(* OUT.write_text: a buffer-full of a long text reaches the file *)
WFlush ==
    /\ writer.pc = "opened"
    /\ subnetsJson' = Partial
    /\ writer' = [writer EXCEPT !.pc = "flushed"]
    /\ UNCHANGED <<descriptions, profiles, profilesDir, lastDiff, runs, last, uploadVars>>

(* OUT.write_text: the rest of the text and close *)
WClose ==
    /\ writer.pc \in {"opened", "flushed"}
    /\ subnetsJson' = writer.out
    /\ IF writer.script = "scrape_taomarketcap"
       THEN writer' = [writer EXCEPT !.pc = "written"] /\ UNCHANGED last
       ELSE writer' = Idle /\ last' = ScrapeRecord(writer, TRUE, FALSE)
    /\ UNCHANGED <<descriptions, profiles, profilesDir, lastDiff, runs, uploadVars>>

(* scrape_taomarketcap.main: writing data/last_diff.json *)
WDiff ==
    /\ writer.pc = "written"
    /\ lastDiff' = [kind |-> "json", changes |-> writer.diff]
    /\ writer' = Idle
    /\ last' = ScrapeRecord(writer, TRUE, FALSE)
    /\ UNCHANGED <<subnetsJson, descriptions, profiles, profilesDir, runs, uploadVars>>

(* a whole run of a script that reads data/subnets.json *)
Reader(script) ==
    /\ runs < MaxConcRuns
    /\ runs' = runs + 1
    /\ script
    /\ UNCHANGED <<uploadVars, writer>>

NextConc ==
    \/ \E ok \in BOOLEAN : \E rows \in TmcTables : (ok \/ rows = <<>>) /\ WStartTmc(ok, rows)
    \/ \E ok \in BOOLEAN : \E ids \in BtIdLists : (ok \/ ids = <<>>) /\ WStartBt(ok, ids)
    \/ WReadOld
    \/ WOpen
    \/ WFlush
    \/ WClose
    \/ WDiff
    \/ Reader(RunBuildProfiles)
    \/ Reader(RunFetchSubnetAlpha)

SpecConc == Init /\ [][NextConc]_vars

(* C10: a reader running while a scrape run replaces data/subnets.json     *)
(* sees the whole previous content or the whole new content, never an     *)
(* empty or partly written file.                                           *)
C10_AtomicReplace ==
    last.script \in {"build_profiles", "fetch_subnetalpha"}
    => /\ last.read.kind \notin {"empty", "partial"}
       /\ writer.pc \in {"opened", "flushed"} => last.read \in {writer.before, writer.out}

----------------------------------------------------------------------------
(* Properties of files that are meant to be written once *)

(* C11: a run of build_profiles.main leaves the content of every profile   *)
(* file that existed before the run unchanged.                             *)
C11_ExistingProfileUnchanged ==
    [][last'.script = "build_profiles" /\ runs' = runs + 1
       => \A f \in DOMAIN profiles : f \in DOMAIN profiles' /\ profiles'[f] = profiles[f]]_vars

(* C12: a snapshot file written by save_snapshot is never overwritten or   *)
(* changed by a later run of fetch_taomarketcap_snapshot.main.             *)
C12_SnapshotImmutable ==
    [][\A f \in DOMAIN snapshots :
          f \in DOMAIN snapshots' /\ snapshots'[f] = snapshots[f]]_vars

----------------------------------------------------------------------------
(* Exit statuses of the upload scripts *)

(* C13: upload_to_openai.main ends with status 0 exactly when the upload  *)
(* returned a file id, and test_upload reports success only when an       *)
(* upload happened.                                                       *)
C13_ZeroOnlyWhenUploaded ==
    /\ last.script = "upload_to_openai"
       => (last.exit = 0 <=> Succeeded(last.log, "files.create"))
    /\ last.script = "test_upload"
       => (last.success => Succeeded(last.log, "files.create"))

(* C14: under fetch_subnetalpha.main a description file that exists, even  *)
(* an empty one, keeps its content; a file is created only for a subnet    *)
(* whose page was found, and a created file is not empty.                  *)
C14_DescriptionsWriteOnce ==
    [][last'.script = "fetch_subnetalpha" /\ runs' = runs + 1
       => \A i \in Ids :
            /\ descriptions[i].exists => descriptions'[i] = descriptions[i]
            /\ ~descriptions[i].exists /\ descriptions'[i].exists
               => i \in last'.pages /\ descriptions'[i].text # <<>>]_vars

(* a run that met an empty description file of a listed subnet and created *)
(* the file of another subnet                                              *)
C14_Witness ==
    /\ last.script = "fetch_subnetalpha"
    /\ \E i, j \in IdsOf(last.read.subnets) :
          /\ descriptions[i] = File(<<>>)
          /\ j \in last.pages /\ descriptions[j].exists

----------------------------------------------------------------------------
(* Properties of get_subnet_info *)

OptionalFields == {"is_active", "owner_hotkey", "price", "hyperparameters"}

(* the outcome of the lookup that fills a field *)
OutcomeOf(o, field) ==
    CASE field = "is_active" -> o.is_active
      [] field = "owner_hotkey" -> o.owner
      [] field = "price" -> o.price
      [] field = "hyperparameters" -> o.hyperparameters

(* '<field>_error' *)
FieldErrorKey(field) ==
    CASE field = "is_active" -> "is_active_error"
      [] field = "owner_hotkey" -> "owner_hotkey_error"
      [] field = "price" -> "price_error"
      [] field = "hyperparameters" -> "hyperparameters_error"

(* the key the record carries: the owner lookup's is 'owner_error' *)
CompanionKey(field) ==
    IF field = "owner_hotkey" THEN "owner_error" ELSE FieldErrorKey(field)

AllLookups ==
    <<"subnet_exists", "is_subnet_active", "get_subnet_owner_hotkey",
      "get_subnet_price", "get_subnet_hyperparameters">>

(* for an existing subnet: a raising lookup leaves None and the message   *)
(* under key errKey(field), every lookup is made, no 'error' key          *)
LookupsIndependent(errKey(_)) ==
    last.script = "get_subnet_info" /\ last.o.exists.kind = "truthy"
    => LET d == last.info.data IN
       /\ \A f \in OptionalFields :
            OutcomeOf(last.o, f).kind = "raise"
            => /\ f \in DOMAIN d /\ d[f] = PyNone
               /\ errKey(f) \in DOMAIN d
               /\ d[errKey(f)] = PyStr(OutcomeOf(last.o, f).msg)
       /\ last.info.calls = AllLookups
       /\ "error" \notin DOMAIN d

(* C15 as stated: a lookup that raises sets its field to None and records *)
(* the message under '<field>_error'; the later lookups are still made    *)
(* and the record has no 'error' key.                                     *)
C15_CompanionFieldError == LookupsIndependent(FieldErrorKey)

(* C15 amended: the same, the message being recorded under is_active_error, *)
(* owner_error, price_error or hyperparameters_error.                       *)
C15_LookupsFailIndependently == LookupsIndependent(CompanionKey)

(* the first and the third lookup raised, the two others returned *)
C15_Witness ==
    /\ last.script = "get_subnet_info" /\ last.o.exists.kind = "truthy"
    /\ last.o.is_active.kind = "raise" /\ last.o.price.kind = "raise"
    /\ last.o.owner.kind = "truthy" /\ last.o.hyperparameters.kind = "truthy"
    /\ last.info.data["owner_hotkey"] = PyStr("hotkey")

----------------------------------------------------------------------------
(* Properties of the stages of fetch_taomarketcap_snapshot.main *)

StageOrder == <<"fetch", "render", "save", "upload">>

(* C16: main enters its stages in the order fetch, render, save, upload,  *)
(* a stage only after every earlier one succeeded; it returns 0 exactly   *)
(* when all four succeeded and 1 otherwise.                               *)
C16_StagesInOrder ==
    last.script = "fetch_taomarketcap_snapshot"
    => LET st == last.stages IN
       /\ Len(st) <= Len(StageOrder)
       /\ \A k \in 1..Len(st) : st[k].stage = StageOrder[k]
       /\ \A k \in 1..Len(st) : k < Len(st) => st[k].res = "ok"
       /\ last.exit \in {0, 1}
       /\ last.exit = 0 <=> Len(st) = Len(StageOrder) /\ \A k \in 1..Len(st) : st[k].res = "ok"

(* a run stopped by the upload stage after the snapshot was saved *)
C16_Witness ==
    /\ last.script = "fetch_taomarketcap_snapshot"
    /\ Len(last.stages) = 4 /\ last.stages[4].res = "fail"
    /\ last.exit = 1 /\ clock \in DOMAIN snapshots

----------------------------------------------------------------------------
(* Properties of data/last_diff.json *)

(* the subnet list of a data/subnets.json as the scraper reads it: none *)
(* for a missing or empty file                                          *)
ListOf(file) == IF file.kind = "json" THEN file.subnets ELSE <<>>

(* the name a list gives an id: that of its last record with the id *)
NameIn(list, i) ==
    LET ks == {k \in 1..Len(list) : list[k].id = i}
    IN list[CHOOSE k \in ks : \A j \in ks : j <= k].name

(* C17: the diff a scrape_taomarketcap run writes is the one against the  *)
(* data/subnets.json of just before the run: new_ids holds exactly the    *)
(* fetched records whose id the old file lacks, renamed exactly those     *)
(* whose id the old file has under another name, with both names, and an  *)
(* id that only the old file has is in neither list.                      *)
C17_DiffAgainstPrevious ==
    [][last'.script = "scrape_taomarketcap" /\ last'.wrote /\ runs' = runs + 1
       => LET old == ListOf(subnetsJson)
              new == last'.fetched
              d   == lastDiff'.changes
              IsNew(r) == r.id \notin IdsOf(old)
              IsRenamed(r) == r.id \in IdsOf(old) /\ NameIn(old, r.id) # r.name
              moved == SelectSeq(new, IsRenamed)
          IN /\ lastDiff'.kind = "json"
             /\ d.new_ids = SelectSeq(new, IsNew)
             /\ d.renamed = [k \in 1..Len(moved) |->
                               [id |-> moved[k].id, old |-> NameIn(old, moved[k].id),
                                new |-> moved[k].name]]
             /\ \A i \in IdsOf(old) \ IdsOf(new) :
                   /\ \A k \in 1..Len(d.new_ids) : d.new_ids[k].id # i
                   /\ \A k \in 1..Len(d.renamed) : d.renamed[k].id # i]_vars

(* a diff with a new id and a renamed id, written over a list that had an *)
(* id the new table lacks                                                 *)
C17_Witness ==
    /\ last.script = "scrape_taomarketcap" /\ last.wrote
    /\ lastDiff.kind = "json"
    /\ Len(lastDiff.changes.renamed) = 1
    /\ Len(lastDiff.changes.new_ids) = 1
    /\ runs >= 2

----------------------------------------------------------------------------
(* Exit status of upload_to_vector_store.main *)

(* C18: with a well-formed key and the input file present,                *)
(* upload_to_vector_store.main returns 0 exactly when client.files.create *)
(* or openai.File.create succeeded and 1 otherwise, and a failed          *)
(* client.files.list() does not keep client.files.create from being       *)
(* called.                                                                *)
C18_ZeroIffSomeUpload ==
    /\ last.script = "upload_to_vector_store"
    /\ ~KeyFalsy(apiKey) /\ StartsWith(apiKey.value, SkPrefix) /\ allProfilesTxt
    => /\ last.exit \in {0, 1}
       /\ last.exit = 0 <=> \/ Succeeded(last.log, "files.create")
                            \/ Succeeded(last.log, "openai.File.create")
       /\ Failed(last.log, "files.list") => Steps(last.log, "files.create") # {}

(* the probe failed and the upload that followed succeeded *)
C18_Witness ==
    /\ last.script = "upload_to_vector_store"
    /\ Failed(last.log, "files.list")
    /\ Succeeded(last.log, "files.create")
    /\ last.exit = 0

----------------------------------------------------------------------------
(* Two runs of scrape_taomarketcap.main side by side.  A step is one of    *)
(* the statements of main that reach outside the process: the request, the *)
(* read of the old file and the two write_text calls.                      *)

MaxRacers == 2

Racers == 1..MaxRacers

(* a main that writes data/last_diff.json before data/subnets.json *)
TmcStepsDiffFirst == <<"fetch", "read", "diff", "subnets">>

(* main in statement order: fetch_table(), OUT.read_text(),                *)
(* OUT.write_text(...), Path("data/last_diff.json").write_text(...)        *)
TmcSteps == <<"fetch", "read", "subnets", "diff">>

RaceStart ==
    [pc |-> 0, rows |-> <<>>, out |-> Absent,
     diff |-> [new_ids |-> <<>>, renamed |-> <<>>], wrote |-> <<>>]

RaceAt(p, step) ==
    /\ writer.run[p].pc < Len(TmcSteps)
    /\ TmcSteps[writer.run[p].pc + 1] = step

Advance(p, locals) ==
    [writer EXCEPT !.run[p] = [locals EXCEPT !.pc = @ + 1]]

RaceFrame == <<descriptions, profiles, profilesDir, runs, last, uploadVars>>

(* new = {"subnets": fetch_table(), ...}; the run overlaps one in progress *)
RaceFetch(p, rows) ==
    /\ RaceAt(p, "fetch")
    /\ writer' = [Advance(p, [writer.run[p] EXCEPT !.rows = rows]) EXCEPT
                    !.overlapped = @ \/ \E q \in Racers \ {p} :
                                          writer.run[q].pc \in 1..(Len(TmcSteps) - 1)]
    /\ UNCHANGED <<subnetsJson, lastDiff, RaceFrame>>

(* old = json.loads(OUT.read_text() ...), old_map and the changes loop *)
RaceRead(p) ==
    /\ RaceAt(p, "read")
    /\ LET me == writer.run[p]
           old == TmcReadOld(subnetsJson)
       IN writer' = Advance(p, [me EXCEPT !.out = TmcOutput(old.subnets, me.rows),
                                          !.diff = Changes(OldMap(old.subnets), me.rows)])
    /\ UNCHANGED <<subnetsJson, lastDiff, RaceFrame>>

(* OUT.write_text(json.dumps(new, indent=2)) *)
RaceWriteSubnets(p) ==
    /\ RaceAt(p, "subnets")
    /\ subnetsJson' = writer.run[p].out
    /\ writer' = [Advance(p, [writer.run[p] EXCEPT !.wrote = Append(@, "subnets.json")])
                    EXCEPT !.subnetsBy = p]
    /\ UNCHANGED <<lastDiff, RaceFrame>>

(* Path("data/last_diff.json").write_text(json.dumps(changes, indent=2)) *)
RaceWriteDiff(p) ==
    /\ RaceAt(p, "diff")
    /\ lastDiff' = [kind |-> "json", changes |-> writer.run[p].diff]
    /\ writer' = [Advance(p, [writer.run[p] EXCEPT !.wrote = Append(@, "last_diff.json")])
                    EXCEPT !.diffBy = p]
    /\ UNCHANGED <<subnetsJson, RaceFrame>>

InitRace ==
    /\ subnetsJson = Absent
    /\ descriptions = [i \in Ids |-> NoFile]
    /\ profiles = <<>>
    /\ lastDiff = [kind |-> "absent"]
    /\ profilesDir = FALSE
    /\ runs = 0
    /\ apiKey = KeyUnset
    /\ allProfilesTxt = FALSE
    /\ snapshots = <<>>
    /\ clock = 0
    /\ vector = NoVector
    /\ writer = [pc |-> "race", run |-> [p \in Racers |-> RaceStart],
                 subnetsBy |-> 0, diffBy |-> 0, overlapped |-> FALSE]
    /\ last = [script |-> "none"]

NextRace ==
    \/ \E p \in Racers : \E rows \in TmcTables : RaceFetch(p, rows)
    \/ \E p \in Racers : RaceRead(p)
    \/ \E p \in Racers : RaceWriteSubnets(p)
    \/ \E p \in Racers : RaceWriteDiff(p)

SpecRace == InitRace /\ [][NextRace]_vars

RacersDone == \A p \in Racers : writer.run[p].pc = Len(TmcSteps)

IsPrefix(s, t) == Len(s) <= Len(t) /\ \A k \in 1..Len(s) : s[k] = t[k]

(* C19: each of two scrape_taomarketcap runs writes data/subnets.json and  *)
(* then data/last_diff.json, nothing orders the steps of one run against   *)
(* those of the other, and when both are done the two files are each the   *)
(* work of the run that wrote it last: of different runs only if the runs  *)
(* overlapped.                                                             *)
C19_MismatchOnlyByOverlap ==
    writer.pc = "race"
    => /\ \A p \in Racers :
            IsPrefix(writer.run[p].wrote, <<"subnets.json", "last_diff.json">>)
       /\ RacersDone
          => /\ subnetsJson = writer.run[writer.subnetsBy].out
             /\ lastDiff.changes = writer.run[writer.diffBy].diff
             /\ writer.subnetsBy # writer.diffBy => writer.overlapped

(* both runs done, the stored list written by one and the stored diff by   *)
(* the other, the diff not being the one the list's run computed           *)
C19_Witness ==
    /\ writer.pc = "race" /\ RacersDone
    /\ writer.subnetsBy # writer.diffBy
    /\ lastDiff.changes # writer.run[writer.subnetsBy].diff

----------------------------------------------------------------------------
(* Properties of the records of data/subnets.json *)

(* C20: every record get_subnet_info returns, on each of its paths, and   *)
(* every record fetch_table builds has an 'id' and a 'name' key, its id   *)
(* and name being those main writes, so reading s["id"] and s["name"] of  *)
(* a written record raises no KeyError.                                   *)
C20_RecordsHaveIdAndName ==
    /\ last.script = "get_subnet_info"
       => LET d == last.info.data IN
          /\ ~ReadIdName(d).raised
          /\ Rec(d["id"].n, d["name"].q) = get_subnet_info(last.id)
    /\ last.script = "fetch_table"
       => \A k \in 1..Len(last.rows) :
            /\ ~ReadIdName(last.rows[k]).raised
            /\ last.rows[k]["id"].t = "int" /\ last.rows[k]["name"].t = "str"

(* the record of a run of get_subnet_info whose first SDK call raised *)
C20_Witness ==
    /\ last.script = "get_subnet_info"
    /\ last.o.exists.kind = "raise"
    /\ "error" \in DOMAIN last.info.data
    /\ "name" \in DOMAIN last.info.data

----------------------------------------------------------------------------
(* Properties of web_interface *)

(* C21: for every data/subnets.json fetch_subnets_bt.main can write,      *)
(* generate_web_files completes and writes web_output/index.html, and     *)
(* the server is started after it.                                        *)
C21_WebAlwaysGenerated ==
    last.script = "web_interface"
    => /\ ~last.raised /\ last.index
       /\ last.steps = <<"generate_web_files", "start_server">>

(* the profiles of data/profiles are those build_profiles.main writes for *)
(* the current data/subnets.json                                          *)
ProfilesBuilt ==
    /\ subnetsJson.kind = "json" /\ profilesDir
    /\ \A k \in 1..Len(subnetsJson.subnets) :
         ProfilePath(subnetsJson.subnets[k]) \in DOMAIN profiles

(* C22: after build_profiles.main and generate_web_files ran on the same  *)
(* data/subnets.json, every View Profile link of index.html names a file  *)
(* generate_web_files wrote under web_output/profiles.                    *)
C22_LinksResolve ==
    last.script = "web_interface" /\ ~last.raised /\ ProfilesBuilt
    => \A k \in 1..Len(last.links) : last.links[k] \in last.html

----------------------------------------------------------------------------
(* Properties of data/profiles over several runs *)

(* C23 as stated: after scrape runs each followed by build_profiles.main, *)
(* data/profiles holds at most one profile per subnet id and only         *)
(* profiles of ids of the current data/subnets.json.                      *)
C23_NoStaleProfiles ==
    (last.script = "build_profiles" /\ ~last.raised /\ DistinctIds(subnetsJson.subnets))
    => /\ \A f \in DOMAIN profiles : f[1] \in IdsOf(subnetsJson.subnets)
       /\ \A f, g \in DOMAIN profiles : f[1] = g[1] => f = g

(* C23 amended: a run of build_profiles.main leaves in data/profiles a    *)
(* profile <id>_<slug(name)> for every record of the current              *)
(* data/subnets.json and removes no file: the profiles of renamed and of  *)
(* removed subnets stay.                                                  *)
C23_ProfilesOnlyAdded ==
    [][last'.script = "build_profiles" /\ ~last'.raised /\ runs' = runs + 1
       => /\ \A f \in DOMAIN profiles : f \in DOMAIN profiles'
          /\ \A k \in 1..Len(subnetsJson.subnets) :
               <<subnetsJson.subnets[k].id, SpecSlug(subnetsJson.subnets[k].name)>>
                   \in DOMAIN profiles']_vars

(* after a build over a list of distinct ids: two profiles of one id, and *)
(* a profile of an id the list lacks                                      *)
C23_Witness ==
    /\ last.script = "build_profiles" /\ ~last.raised
    /\ DistinctIds(subnetsJson.subnets)
    /\ \E f, g \in DOMAIN profiles : f # g /\ f[1] = g[1]
    /\ \E f \in DOMAIN profiles : f[1] \notin IdsOf(subnetsJson.subnets)

----------------------------------------------------------------------------
(* C24: after any sequence of runs of build_vectorstore.py, 'files' in    *)
(* vector/meta.json describes the vectors of vector/index.faiss: one path *)
(* per indexed vector, in the same order, each vector the embedding of    *)
(* the text the run read at that path; so when the last run found no      *)
(* profiles, no index with vectors remains.                               *)
C24_MetaDescribesIndex ==
    (last.script = "build_vectorstore" /\ ~last.raised)
    => /\ vector.meta.exists
       /\ Len(vector.meta.files) = Len(vector.index.vectors)
       /\ \A k \in 1..Len(vector.meta.files) :
            /\ vector.meta.files[k] \in DOMAIN last.dir
            /\ vector.index.vectors[k] = Embed(last.dir[vector.meta.files[k]])

----------------------------------------------------------------------------
(* C25: upload_to_openai removes the temporary file it created, whether   *)
(* client.files.create succeeds or raises, and with a missing API key it  *)
(* raises before a temporary file is created: after a run of              *)
(* upload_to_openai.py no temporary file is left.                         *)
TempFilesLeft(events) ==
    Cardinality({k \in 1..Len(events) : events[k] = "NamedTemporaryFile"})
    - Cardinality({k \in 1..Len(events) : events[k] = "os.unlink"})

C25_NoTempFileLeft ==
    last.script = "upload_to_openai"
    => /\ TempFilesLeft(last.temp) = 0
       /\ KeyFalsy(apiKey) => last.temp = <<>>
       /\ (\E k \in 1..Len(last.log) : last.log[k].op = "files.create")
              => last.temp = <<"NamedTemporaryFile", "os.unlink">>

C25_Witness ==
    /\ last.script = "upload_to_openai"
    /\ \E k \in 1..Len(last.log) : last.log[k] = Ev("files.create", TRUE, FALSE)
    /\ last.temp = <<"NamedTemporaryFile", "os.unlink">>

----------------------------------------------------------------------------
(* upload_to_openai.main over directories that hold any files, also files *)
(* build_profiles.py did not write                                        *)

MaxFiles == 3

Chars(str) ==
    CASE str = "1_c" -> <<"1", "_", "c">>
      [] str = "2_b" -> <<"2", "_", "b">>
      [] str = "10_a" -> <<"1", "0", "_", "a">>
      [] str = "01_b" -> <<"0", "1", "_", "b">>
      [] str = "-1_d" -> <<"-", "1", "_", "d">>
      [] str = "x_1" -> <<"x", "_", "1">>
      [] str = "readme" -> <<"r", "e", "a", "d", "m", "e">>
      [] str = "_a" -> <<"_", "a">>

(* stems of files data/profiles may hold *)
StemNames ==
    {Chars(str) : str \in {"1_c", "2_b", "10_a", "01_b", "-1_d", "x_1", "readme", "_a"}}

CallUploadToOpenaiMain == \E o \in UtoOutcomes :
    LET jsonExists == subnetsJson.kind # "absent"
        r == upload_to_openai_main(apiKey, jsonExists, profilesDir, last.listing, o)
    IN /\ last.script = "call upload_to_openai.main"
       /\ last' = [script |-> "upload_to_openai.main", returned |-> r.returned,
                   log |-> r.log, listing |-> last.listing,
                   consolidated |-> consolidate_profiles(profilesDir, last.listing)]
       /\ UNCHANGED <<pipelineVars, runs, uploadVars>>

InitConsol ==
    /\ subnetsJson \in {Absent, Json(<<>>, FALSE)}
    /\ descriptions = [i \in Ids |-> NoFile]
    /\ profiles = <<>>
    /\ lastDiff = [kind |-> "absent"]
    /\ profilesDir \in BOOLEAN
    /\ runs = 0
    /\ apiKey \in Keys
    /\ allProfilesTxt = FALSE
    /\ snapshots = <<>>
    /\ clock = 0
    /\ vector = NoVector
    /\ writer = Idle
    /\ \E S \in {T \in SUBSET StemNames : Cardinality(T) <= MaxFiles} :
       \E p \in Perms(S) :
           last = [script |-> "call upload_to_openai.main",
                   listing |-> [k \in 1..Len(p) |->
                                   [stem |-> p[k], content |-> <<"#", " ">> \o p[k]]]]
    /\ (~profilesDir => last.listing = <<>>)

NextConsol == CallUploadToOpenaiMain

SpecConsol == InitConsol /\ [][NextConsol]_vars

(* some file of the listing has a prefix int() rejects *)
BadPrefix(listing) == \E k \in 1..Len(listing) : ProfileKey(listing[k]).raised

(* the consolidated text holds every listed file once, in ascending order *)
(* of the integer prefix, and the header counts the files it holds        *)
ConsolidatedAll(c, listing) ==
    /\ ~c.raised
    /\ c.total = Len(c.contents)
    /\ Len(c.contents) = Len(listing)
    /\ Len(c.profile_files) = Len(listing)
    /\ \A k \in 1..Len(listing) :
         Cardinality({j \in 1..Len(c.contents) :
                         /\ c.profile_files[j] = listing[k].stem
                         /\ c.contents[j] = listing[k].content}) = 1
    /\ \A j, k \in 1..Len(c.profile_files) :
         j < k => PyIntOf(Prefix(c.profile_files[j])).n <= PyIntOf(Prefix(c.profile_files[k])).n

NoUploadMade(log) == \A k \in 1..Len(log) : log[k].op # "files.create"

(* C26 as stated: consolidate_profiles includes every data/profiles/*.md  *)
(* once, in ascending numeric order of the prefix before the first '_',   *)
(* with a 'Total profiles' header equal to the number included; a file    *)
(* whose prefix is not an integer makes it raise and main return 1        *)
(* without uploading.                                                     *)
C26_BadPrefixReturnsOne ==
    last.script = "upload_to_openai.main"
    => /\ (profilesDir /\ ~BadPrefix(last.listing))
            => ConsolidatedAll(last.consolidated, last.listing)
       /\ BadPrefix(last.listing)
            => /\ last.consolidated.raised
               /\ last.returned = "1"
               /\ NoUploadMade(last.log)

(* C26 amended: the same, where main returns 1 on a file with a           *)
(* non-integer prefix when data/subnets.json exists; without subnets.json *)
(* main returns None before it consolidates, and uploads nothing.         *)
C26_ConsolidatedInOrder ==
    last.script = "upload_to_openai.main"
    => /\ (profilesDir /\ ~BadPrefix(last.listing))
            => ConsolidatedAll(last.consolidated, last.listing)
       /\ BadPrefix(last.listing)
            => /\ last.consolidated.raised
               /\ NoUploadMade(last.log)
               /\ last.returned = (IF subnetsJson.kind # "absent" THEN "1" ELSE "None")

(* three files consolidated where numeric and text order differ *)
C26_Witness ==
    /\ last.script = "upload_to_openai.main"
    /\ ~last.consolidated.raised
    /\ last.consolidated.profile_files = <<Chars("-1_d"), Chars("2_b"), Chars("10_a")>>
    /\ last.listing[1].stem = Chars("10_a")

----------------------------------------------------------------------------
(* fetch_taomarketcap_snapshot.fetch_taomarketcap on the text of a page.  *)
(* A page is the sequence of the JSON objects in its text, each object    *)
(* the set of the fields the six patterns match in it, and the first      *)
(* array written after a "subnets" key.                                   *)

MaxObjs == 3
MaxTrending == 11

SubnetFields == {"subnet", "name", "price", "marketcap", "volume", "emission"}

(* objects: a subnet object with every field, one where one pattern      *)
(* matches nothing (the key is missing, or its value is null or          *)
(* negative), and an object of another kind that has a name; trending:   *)
(* no array, one json.loads rejects, and arrays of items with entity ids *)
Pages ==
    LET PageObjects ==
            {SubnetFields} \cup {SubnetFields \ {f} : f \in SubnetFields} \cup {{"name"}}
        TrendingArrays ==
            {[kind |-> "absent", items |-> <<>>], [kind |-> "unparsable", items |-> <<>>]}
            \cup {[kind |-> "array", items |-> [k \in 1..n |-> k]] :
                      n \in {0, 1, MaxTrending}}
    IN [objects : SeqsUpTo(PageObjects, MaxObjs), trending : TrendingArrays]

(* re.findall of the pattern of one field over the whole text; a capture *)
(* is written as the object it stands in and the field                   *)
FindAll(objects, field) ==
    LET idx == SelectSeq([j \in 1..Len(objects) |-> j], LAMBDA j : field \in objects[j])
    IN [k \in 1..Len(idx) |-> [of |-> idx[k], field |-> field]]

MinOf(S) == CHOOSE n \in S : \A m \in S : n <= m

(* the six lists paired by position, up to the shortest *)
Matches(objects) ==
    LET n == MinOf({Len(FindAll(objects, f)) : f \in SubnetFields})
    IN [i \in 1..n |-> [f \in SubnetFields |-> FindAll(objects, f)[i]]]

(* an f-string applied to a captured number *)
Format(fmt, v) == [format |-> fmt, value |-> v]

SubnetRecord(match) ==
    [id |-> match["subnet"],
     name |-> match["name"],
     price_usd |-> Format("$%.6f", match["price"]),
     market_cap |-> Format("$%,.2f", match["marketcap"]),
     volume_24h |-> Format("$%,.2f", match["volume"]),
     circulating_supply |-> Format("N/A", [of |-> 0, field |-> "none"]),
     emissions |-> Format("%.6f", match["emission"])]

(* the names bound at module level by the imports *)
ModuleNames == {"requests", "os", "datetime", "re", "sys", "Path", "BeautifulSoup"}

(* json.loads of the captured array: the name json is looked up first *)
JsonLoads(array) ==
    IF "json" \notin ModuleNames THEN [raised |-> TRUE, value |-> <<>>]
    ELSE IF array.kind = "unparsable" THEN [raised |-> TRUE, value |-> <<>>]
    ELSE [raised |-> FALSE, value |-> array.items]

TrendLabel(entity_id) == <<"S", "N", " ">> \o IdStr(entity_id)

(* the trending list: [] without a match and after any exception *)
Trending(array) ==
    IF array.kind = "absent" THEN <<>>
    ELSE LET trending_data == JsonLoads(array) IN
         IF trending_data.raised THEN <<>>
         ELSE [k \in 1..MinOf({10, Len(trending_data.value)}) |->
                  TrendLabel(trending_data.value[k])]

(* ', '.join *)
RECURSIVE Join(_)
Join(strs) ==
    IF strs = <<>> THEN <<>>
    ELSE IF Len(strs) = 1 THEN strs[1]
    ELSE strs[1] \o <<",", " ">> \o Join(Tail(strs))

(* the value of the Top Trending Subnets line of the snapshot *)
TrendingLine(trending) ==
    IF trending # <<>> THEN Join(SubSeq(trending, 1, MinOf({10, Len(trending)})))
    ELSE <<"N", "/", "A">>

(* the extraction of fetch_taomarketcap after a successful GET *)
fetch_taomarketcap_page(page) ==
    LET matches == Matches(page.objects) IN
    IF matches = <<>> THEN [none |-> TRUE, subnets |-> <<>>, trending |-> <<>>]
    ELSE [none |-> FALSE,
          subnets |-> [i \in 1..Len(matches) |-> SubnetRecord(matches[i])],
          trending |-> Trending(page.trending)]

CallFetchTaomarketcap ==
    LET data == fetch_taomarketcap_page(last.page) IN
    /\ last.script = "call fetch_taomarketcap"
    /\ last' = [script |-> "fetch_taomarketcap", page |-> last.page, data |-> data,
                line |-> IF data.none THEN <<>> ELSE TrendingLine(data.trending)]
    /\ UNCHANGED <<pipelineVars, runs, uploadVars>>

InitPage ==
    /\ subnetsJson = Absent
    /\ descriptions = [i \in Ids |-> NoFile]
    /\ profiles = <<>>
    /\ lastDiff = [kind |-> "absent"]
    /\ profilesDir = FALSE
    /\ runs = 0
    /\ apiKey = KeyUnset
    /\ allProfilesTxt = FALSE
    /\ snapshots = <<>>
    /\ clock = 0
    /\ vector = NoVector
    /\ writer = Idle
    /\ last \in {[script |-> "call fetch_taomarketcap", page |-> p] : p \in Pages}

NextPage == CallFetchTaomarketcap

SpecPage == InitPage /\ [][NextPage]_vars

(* C27: every record fetch_taomarketcap returns combines the id, name,    *)
(* price, market cap, volume and emission of one and the same subnet      *)
(* object of the page, and the number of records is the minimum of the    *)
(* six list lengths: an object that lacks a field shifts no later field   *)
(* onto another subnet.                                                   *)
C27_FieldsOfOneSubnet ==
    (last.script = "fetch_taomarketcap" /\ ~last.data.none)
    => /\ Len(last.data.subnets)
            = MinOf({Len(FindAll(last.page.objects, f)) : f \in SubnetFields})
       /\ \A i \in 1..Len(last.data.subnets) :
            LET sn == last.data.subnets[i] IN
            \E j \in 1..Len(last.page.objects) :
                /\ sn.id.of = j
                /\ sn.name.of = j
                /\ sn.price_usd.value.of = j
                /\ sn.market_cap.value.of = j
                /\ sn.volume_24h.value.of = j
                /\ sn.emissions.value.of = j

(* C28: when the page holds a parsable array after "subnets", the         *)
(* returned 'trending' has one 'SN <entity_id>' for each of its first 10  *)
(* items and the Top Trending Subnets line lists them; the list is empty  *)
(* and the line 'N/A' only when the array is absent, unparsable or has no *)
(* item.                                                                  *)
C28_TrendingListed ==
    (last.script = "fetch_taomarketcap" /\ ~last.data.none)
    => LET array == last.page.trending
           first10 == SubSeq(array.items, 1, MinOf({10, Len(array.items)}))
       IN /\ array.kind = "array"
               => /\ last.data.trending = [k \in 1..Len(first10) |-> TrendLabel(first10[k])]
                  /\ first10 # <<>> => last.line = Join(last.data.trending)
          /\ last.line = <<"N", "/", "A">>
               => (array.kind \in {"absent", "unparsable"} \/ array.items = <<>>)

====
